---- MODULE Spec2Model ----
(***************************************************************************)
(* The settlement and leaderboard service of backend/app.py: the handlers  *)
(* receive_result (POST /result) and get_leaderboard (GET /leaderboard),   *)
(* and the Score Store file they read and rewrite with load_scores and     *)
(* save_scores.                                                            *)
(*                                                                         *)
(* Strings are sequences of code points, so that Python's string order     *)
(* (sorted) and string renderings (str, repr, json.dump's keys) are        *)
(* computed and not assumed. Decimal numbers are fixed point, in units of  *)
(* 1/10000: 1.0 is 10000, 0.15 is 1500.                                    *)
(***************************************************************************)
EXTENDS Integers, Sequences, FiniteSets, TLC

VARIABLES file, req, board

vars == <<file, req, board>>

---------------------------------------------------------------------------
(* Bounds of the model. *)

\* Requests of one run of the sequential specifications.
MaxReqs == 3
\* Requests of one run of the concurrent specification.
MaxConc == 2

---------------------------------------------------------------------------
(* JSON values as Python holds them after request.get_json / json.load. *)

JNull == [t |-> "null", s |-> <<>>, n |-> 0, items |-> <<>>]
JStr(cp) == [t |-> "str", s |-> cp, n |-> 0, items |-> <<>>]
JInt(k) == [t |-> "int", s |-> <<>>, n |-> k, items |-> <<>>]
\* a float, in units of 1/10000
JFloat(u) == [t |-> "float", s |-> <<>>, n |-> u, items |-> <<>>]
\* a list: its elements in order
JList(xs) == [t |-> "list", s |-> <<>>, n |-> 0, items |-> xs]
\* a dict: a sequence of <<key, value>>, keys code point sequences, in order
JDict(kv) == [t |-> "dict", s |-> <<>>, n |-> 0, items |-> kv]

\* The strings the handlers name.
k_wallet == <<119, 97, 108, 108, 101, 116>>
k_score == <<115, 99, 111, 114, 101>>
k_stake == <<115, 116, 97, 107, 101>>
k_category == <<99, 97, 116, 101, 103, 111, 114, 121>>
k_user == <<117, 115, 101, 114>>
k_opponent == <<111, 112, 112, 111, 110, 101, 110, 116>>
k_account == <<97, 99, 99, 111, 117, 110, 116>>
k_address == <<97, 100, 100, 114, 101, 115, 115>>
k_publicKey == <<112, 117, 98, 108, 105, 99, 75, 101, 121>>
s_general == <<103, 101, 110, 101, 114, 97, 108>>

\* Python's truth value of a JSON value (`x or y`, `if not x`).
Truthy(v) ==
  CASE v.t = "null" -> FALSE
    [] v.t = "bool" -> v.n # 0
    [] v.t = "int" -> v.n # 0
    [] v.t = "float" -> v.n # 0
    [] v.t = "str" -> v.s # <<>>
    [] OTHER -> v.items # <<>>

\* Whether Python can hash the value (use it as a dict key, test `in`).
Hashable(v) == v.t \notin {"list", "dict"}

RECURSIVE DictGet(_, _, _)
\* dict.get(key, default) over the dict's items.
DictGet(kv, key, dflt) ==
  IF kv = <<>> THEN dflt
  ELSE IF Head(kv)[1] = key THEN Head(kv)[2]
  ELSE DictGet(Tail(kv), key, dflt)

RECURSIVE HasKey(_, _)
\* `key in d` over the dict's items.
HasKey(kv, key) ==
  IF kv = <<>> THEN FALSE
  ELSE Head(kv)[1] = key \/ HasKey(Tail(kv), key)

RECURSIVE Digits(_)
\* The decimal digits of a natural number.
Digits(k) ==
  IF k < 10 THEN <<48 + k>> ELSE Digits(k \div 10) \o <<48 + (k % 10)>>

\* str(int)
IntStr(k) == IF k < 0 THEN <<45>> \o Digits(0 - k) ELSE Digits(k)

RECURSIVE PyStr(_)
RECURSIVE PyRepr(_)
RECURSIVE ReprList(_)
RECURSIVE ReprItems(_)
\* str(v) of a JSON value (floats do not occur where the handler calls str).
PyStr(v) ==
  CASE v.t = "null" -> <<78, 111, 110, 101>>
    [] v.t = "bool" -> IF v.n # 0 THEN <<84, 114, 117, 101>>
                       ELSE <<70, 97, 108, 115, 101>>
    [] v.t = "int" -> IntStr(v.n)
    [] v.t = "str" -> v.s
    [] v.t = "list" -> <<91>> \o ReprList(v.items) \o <<93>>
    [] v.t = "dict" -> <<123>> \o ReprItems(v.items) \o <<125>>

\* repr(v): a string is quoted, everything else is as str(v).
PyRepr(v) == IF v.t = "str" THEN <<39>> \o v.s \o <<39>> ELSE PyStr(v)

ReprList(xs) ==
  IF xs = <<>> THEN <<>>
  ELSE IF Len(xs) = 1 THEN PyRepr(xs[1])
  ELSE PyRepr(xs[1]) \o <<44, 32>> \o ReprList(Tail(xs))

ReprItems(kv) ==
  IF kv = <<>> THEN <<>>
  ELSE LET one == <<39>> \o kv[1][1] \o <<39, 58, 32>> \o PyRepr(kv[1][2])
       IN IF Len(kv) = 1 THEN one ELSE one \o <<44, 32>> \o ReprItems(Tail(kv))

\* A result of a Python conversion: a value, or an exception raised.
Ok(x) == [ok |-> TRUE, v |-> x]
Raise == [ok |-> FALSE, v |-> 0]

\* Whether every code point is a decimal digit.
AllDigits(cp) == cp # <<>> /\ \A i \in 1..Len(cp) : cp[i] \in 48..57

RECURSIVE DigitsValue(_)
DigitsValue(cp) ==
  IF cp = <<>> THEN 0
  ELSE 10 * DigitsValue(SubSeq(cp, 1, Len(cp) - 1)) + (cp[Len(cp)] - 48)

\* Truncation toward zero of a fixed point number to an integer.
Trunc(u) == IF u >= 0 THEN u \div 10000 ELSE 0 - ((0 - u) \div 10000)

\* int(v): a number is truncated, a string of digits (with a sign) is
\* parsed, anything else raises ValueError or TypeError.
PyInt(v) ==
  CASE v.t = "int" -> Ok(v.n)
    [] v.t = "bool" -> Ok(v.n)
    [] v.t = "float" -> Ok(Trunc(v.n))
    [] v.t = "str" ->
         IF AllDigits(v.s) THEN Ok(DigitsValue(v.s))
         ELSE IF Len(v.s) > 1 /\ v.s[1] = 45 /\ AllDigits(Tail(v.s))
           THEN Ok(0 - DigitsValue(Tail(v.s)))
         ELSE Raise
    [] OTHER -> Raise

\* float(v), in units of 1/10000 (the strings of the model hold integers).
PyFloat(v) ==
  CASE v.t = "int" -> Ok(v.n * 10000)
    [] v.t = "bool" -> Ok(v.n * 10000)
    [] v.t = "float" -> Ok(v.n)
    [] v.t = "str" ->
         IF AllDigits(v.s) THEN Ok(DigitsValue(v.s) * 10000)
         ELSE IF Len(v.s) > 1 /\ v.s[1] = 45 /\ AllDigits(Tail(v.s))
           THEN Ok(0 - DigitsValue(Tail(v.s)) * 10000)
         ELSE Raise
    [] OTHER -> Raise

---------------------------------------------------------------------------
(* The Score Store: SCORES_FILE, load_scores and save_scores. *)

\* The file: absent, empty (just truncated), the text of one json.dump
\* (`text`: its key/value pairs in order), or bytes that are no JSON
\* document. `len` is its length in bytes.
NoFile == [kind |-> "absent", text |-> <<>>, len |-> 0]
EmptyFile == [kind |-> "empty", text |-> <<>>, len |-> 0]

RECURSIVE DictSet(_, _, _)
\* d[key] = val on a dict held as <<key, value>> pairs in insertion order.
DictSet(kv, key, val) ==
  IF kv = <<>> THEN << <<key, val>> >>
  ELSE IF Head(kv)[1] = key THEN << <<key, val>> >> \o Tail(kv)
  ELSE <<Head(kv)>> \o DictSet(Tail(kv), key, val)

\* The key json.dump writes for a dict key: a string as it is, an int as
\* its digits, a bool or None as the JSON word.
JsonKey(k) ==
  CASE k.t = "str" -> k.s
    [] k.t = "int" -> IntStr(k.n)
    [] k.t = "bool" -> IF k.n # 0 THEN <<116, 114, 117, 101>>
                       ELSE <<102, 97, 108, 115, 101>>
    [] k.t = "null" -> <<110, 117, 108, 108>>

\* json.dump(scores): the pairs in the dict's order, keys coerced to
\* strings; two keys that coerce alike are both written.
json_dump(scores) ==
  [i \in 1..Len(scores) |-> <<JsonKey(scores[i][1]), scores[i][2]>>]

RECURSIVE json_load(_)
\* json.load of a json.dump text: a dict with string keys, a repeated key
\* keeping its last value.
json_load(text) ==
  IF text = <<>> THEN <<>>
  ELSE LET last == text[Len(text)]
       IN DictSet(json_load(SubSeq(text, 1, Len(text) - 1)),
                  JStr(last[1]), last[2])

RECURSIVE TextLen(_)
\* The bytes of `"key": value` pairs joined by ", ".
TextLen(text) ==
  IF text = <<>> THEN 0
  ELSE Len(text[1][1]) + 4 + Len(IntStr(text[1][2]))
       + (IF Len(text) = 1 THEN 0 ELSE 2 + TextLen(Tail(text)))

\* The file holding the text of json.dump(scores).
JsonFile(text) == [kind |-> "json", text |-> text, len |-> 2 + TextLen(text)]

\* load_scores(): the parsed file, or {} when the file is missing,
\* unreadable (`readable` false) or does not parse.
load_scores(f, readable) ==
  IF readable /\ f.kind = "json" THEN json_load(f.text) ELSE <<>>

\* open(SCORES_FILE, 'w'): the file exists and is empty.
OpenForWrite(f) == EmptyFile

\* Line 64 opening the file to append: the text is added to what the file
\* holds, whose entries stay.
WriteAppended(f, text) == JsonFile(f.text \o text)

\* json.dump(scores, f) and the close that flushes it: the text is written
\* from offset 0 over what the file holds now. What is there now was
\* written by another request since this one's open truncated the file; if
\* it is longer than the new text its tail stays and the file is no JSON.
WriteText(f, text) ==
  IF f.len > 2 + TextLen(text)
    THEN [kind |-> "garbage", text |-> <<>>, len |-> f.len]
    ELSE JsonFile(text)

---------------------------------------------------------------------------
(* receive_result: the computation on the request's own data. *)

\* COMMISSION_RATE = 0.15, as numerator and denominator.
COMMISSION_RATE == <<15, 100>>

\* Lines 197-203: the fields of the body, or an exception raised.
ParseRequest(body) ==
  LET data == IF Truthy(body) THEN body ELSE JDict(<<>>)
  IN IF data.t # "dict" THEN Raise
     ELSE LET score == DictGet(data.items, k_score, JDict(<<>>))
          IN IF score.t # "dict" THEN Raise
             ELSE LET us == PyInt(DictGet(score.items, k_user, JInt(0)))
                      os == PyInt(DictGet(score.items, k_opponent, JInt(0)))
                      st == PyFloat(DictGet(data.items, k_stake, JFloat(10000)))
                  IN IF ~us.ok \/ ~os.ok \/ ~st.ok THEN Raise
                     ELSE Ok([wallet |-> DictGet(data.items, k_wallet, JNull),
                              user_score |-> us.v,
                              opp_score |-> os.v,
                              stake |-> st.v,
                              category |-> DictGet(data.items, k_category,
                                                   JStr(s_general))])

\* Lines 206-211 with >= for >: equal scores make the user the winner.
WinnerNoTie(user_score, opp_score) ==
  IF user_score >= opp_score THEN "user" ELSE "opponent"

\* Lines 206-211.
Winner(user_score, opp_score) ==
  IF user_score > opp_score THEN "user"
  ELSE IF user_score < opp_score THEN "opponent"
  ELSE "tie"

\* Lines 214-217.
Commission(winner, stake) ==
  IF winner # "tie" THEN (stake * COMMISSION_RATE[1]) \div COMMISSION_RATE[2]
  ELSE 0

\* Lines 215-218 without the subtraction of line 218.
NetRewardWhole(winner, stake) == IF winner # "tie" THEN stake ELSE 0

\* Lines 215-218.
NetReward(winner, stake) ==
  IF winner # "tie" THEN stake - Commission(winner, stake) ELSE 0

\* Lines 233-246: the player identifier derived from the wallet.
PlayerId(wallet) ==
  LET isdict == wallet.t = "dict"
      acct == DictGet(wallet.items, k_account, JNull)
      p1 == IF isdict /\ HasKey(wallet.items, k_account) /\ acct.t = "dict"
              THEN DictGet(acct.items, k_address, JNull)
              ELSE JNull
      addr == DictGet(wallet.items, k_address, JNull)
      p2 == IF isdict /\ ~Truthy(p1)
              THEN (IF Truthy(addr) THEN addr
                    ELSE DictGet(wallet.items, k_publicKey, JNull))
              ELSE p1
  IN IF ~Truthy(p2) THEN JStr(PyStr(wallet)) ELSE p2

\* Lines 255-257 with = for += at line 257.
UpdateScoresAssign(scores, player_id, user_score) ==
  DictSet(scores, player_id, user_score)

\* Lines 255-257: the entry created at 0 when absent, then incremented.
UpdateScores(scores, player_id, user_score) ==
  LET had == HasKey(scores, player_id)
      cur == IF had THEN DictGet(scores, player_id, 0) ELSE 0
  IN DictSet(scores, player_id, cur + user_score)

\* The response of lines 262-267.
OkResponse(winner, commission, net_reward) ==
  [code |-> 200, status |-> "ok", winner |-> winner,
   commission |-> commission, net_reward |-> net_reward]

\* What the server answers when the handler raises.
ErrorResponse ==
  [code |-> 500, status |-> "error", winner |-> "none",
   commission |-> 0, net_reward |-> 0]

NoResponse ==
  [code |-> 0, status |-> "none", winner |-> "none",
   commission |-> 0, net_reward |-> 0]

---------------------------------------------------------------------------
(* get_leaderboard: the sort and the ranks. *)

RECURSIVE StrLess(_, _)
\* a < b for Python strings: by code point, a proper prefix first.
StrLess(a, b) ==
  IF b = <<>> THEN FALSE
  ELSE IF a = <<>> THEN TRUE
  ELSE IF a[1] # b[1] THEN a[1] < b[1]
  ELSE StrLess(Tail(a), Tail(b))

\* Line 279 without the minus sign: the lowest score first.
KeyLessAscending(x, y) ==
  x[2] < y[2] \/ (x[2] = y[2] /\ StrLess(x[1].s, y[1].s))

\* key(x) < key(y) for the key (-x[1], x[0]) of line 279.
KeyLess(x, y) ==
  LET kx == 0 - x[2]
      ky == 0 - y[2]
  IN kx < ky \/ (kx = ky /\ StrLess(x[1].s, y[1].s))

RECURSIVE InsertSorted(_, _)
\* x put into a sorted sequence, after the items whose key is not greater.
InsertSorted(sorted, x) ==
  IF sorted = <<>> THEN <<x>>
  ELSE IF KeyLess(x, Head(sorted)) THEN <<x>> \o sorted
  ELSE <<Head(sorted)>> \o InsertSorted(Tail(sorted), x)

RECURSIVE SortedItems(_)
\* sorted(scores.items(), key=...): a stable sort of the items.
SortedItems(items) ==
  IF items = <<>> THEN <<>>
  ELSE InsertSorted(SortedItems(SubSeq(items, 1, Len(items) - 1)),
                    items[Len(items)])

RECURSIVE RankFrom(_, _)
\* Lines 280-284: one entry per item, the rank counting up from `rank`.
RankFrom(sorted, rank) ==
  IF sorted = <<>> THEN <<>>
  ELSE <<[player |-> Head(sorted)[1].s, score |-> Head(sorted)[2],
          rank |-> rank]>> \o RankFrom(Tail(sorted), rank + 1)

\* Lines 279-285.
Leaderboard(scores) == RankFrom(SortedItems(scores), 1)

---------------------------------------------------------------------------
(* The requests the clients send. *)

\* A field the client left out (never a value the handler sees).
Missing == [t |-> "missing", s |-> <<>>, n |-> 0, items |-> <<>>]

\* The dict of the fields that are present.
Fields(kv) == JDict(SelectSeq(kv, LAMBDA p : p[2].t # "missing"))

MkScore(user, opponent) ==
  Fields(<< <<k_user, user>>, <<k_opponent, opponent>> >>)

MkBody(wallet, score, stake, category) ==
  Fields(<< <<k_wallet, wallet>>, <<k_score, score>>, <<k_stake, stake>>,
            <<k_category, category>> >>)

\* {"account": {"address": "a"}}
W_a == JDict(<< <<k_account, JDict(<< <<k_address, JStr(<<97>>)>> >>)>> >>)
\* {"address": "ab", "publicKey": "c"}
W_ab ==
  JDict(<< <<k_address, JStr(<<97, 98>>)>>, <<k_publicKey, JStr(<<99>>)>> >>)
\* {"publicKey": "b"}
W_b == JDict(<< <<k_publicKey, JStr(<<98>>)>> >>)
\* {"account": "x", "address": "c"}
W_c == JDict(<< <<k_account, JStr(<<120>>)>>, <<k_address, JStr(<<99>>)>> >>)
\* {"account": {"address": ""}, "address": "b"}
W_emptyaddr ==
  JDict(<< <<k_account, JDict(<< <<k_address, JStr(<<>>)>> >>)>>,
           <<k_address, JStr(<<98>>)>> >>)
\* {"account": {"address": null}, "publicKey": "c"}
W_nulladdr ==
  JDict(<< <<k_account, JDict(<< <<k_address, JNull>> >>)>>,
           <<k_publicKey, JStr(<<99>>)>> >>)
\* {"address": 5}
W_int == JDict(<< <<k_address, JInt(5)>> >>)
\* {"address": [1]}
W_list == JDict(<< <<k_address, JList(<<JInt(1)>>)>> >>)
\* {}
W_empty == JDict(<<>>)
\* {"account": {}}
W_noaddr == JDict(<< <<k_account, JDict(<<>>)>> >>)
\* "w"
W_str == JStr(<<119>>)

Wallets ==
  {W_a, W_ab, W_b, W_c, W_emptyaddr, W_nulladdr, W_int, W_list, W_empty,
   W_noaddr, W_str, JNull, Missing}

\* Values sent as a score: absent, 0, 1, 2, -1, 2.7, "1", "x", null.
ScoreVals ==
  {Missing, JInt(0), JInt(1), JInt(2), JInt(0 - 1), JFloat(27000),
   JStr(<<49>>), JStr(<<120>>), JNull}

\* Values sent as the stake: absent, 0, 2, -1, 0.5, 1.0, "2", "x", null.
StakeVals ==
  {Missing, JInt(0), JInt(2), JInt(0 - 1), JFloat(5000), JFloat(10000),
   JStr(<<50>>), JStr(<<120>>), JNull}

\* Every request body of the model: no body (or null), [], [1], "x", 5, and
\* the objects.
AllBodies ==
  {JNull, JList(<<>>), JList(<<JInt(1)>>), JStr(<<120>>), JInt(5)}
  \cup {MkBody(w, JNull, Missing, Missing) : w \in {W_a}}
  \cup {MkBody(w, JStr(<<120>>), Missing, Missing) : w \in {W_a}}
  \cup {MkBody(w, MkScore(u, o), st, c) :
          w \in Wallets, u \in ScoreVals, o \in ScoreVals, st \in StakeVals,
          c \in {Missing, JStr(<<99>>)}}

\* A well-formed body: the wallet and the user's score, the opponent at 1.
Result(wallet, user) == MkBody(wallet, MkScore(JInt(user), JInt(1)), Missing, Missing)

---------------------------------------------------------------------------
(* State. *)

Reqs == 1..MaxReqs

\* A request not yet received. pc is the handler's position; the fields
\* after resp record what happened to the request and are read by no
\* handler: read is what load_scores found ("unreadable", or the file's
\* kind), base what it returned, prior the store content when save_scores
\* began, io the outcome of the store update, overlap whether another
\* request was being handled at some time during this one.
IdleReq ==
  [pc |-> "idle", body |-> JNull, wallet |-> JNull, user_score |-> 0,
   opp_score |-> 0, stake |-> 0, category |-> JNull, winner |-> "none",
   commission |-> 0, net_reward |-> 0, player_id |-> JNull, scores |-> <<>>,
   resp |-> NoResponse,
   read |-> "none", base |-> <<>>, prior |-> <<>>, io |-> "none",
   overlap |-> FALSE]

\* No leaderboard answered yet. Of an answer, read and scores record what
\* load_scores found and returned.
NoBoard == [code |-> 0, leaderboard |-> <<>>, read |-> "none", scores |-> <<>>]

Init ==
  /\ file = NoFile
  /\ req = [r \in Reqs |-> IdleReq]
  /\ board = NoBoard

InFlight(r) == req[r].pc \notin {"idle", "done"}

\* No request is being handled.
Quiet == \A r \in Reqs : ~InFlight(r)

---------------------------------------------------------------------------
(* receive_result, one action per step that other requests can interleave
   with. *)

\* Lines 197-246: the body is parsed, the outcome and the player identifier
\* computed. An exception here is not caught: the server answers 500.
\* Requests are numbered in their order of arrival.
Receive(r, body) ==
  /\ req[r].pc = "idle"
  /\ \A q \in 1..(r - 1) : req[q].pc # "idle"
  /\ LET p == ParseRequest(body)
         busy == {q \in Reqs \ {r} : InFlight(q)}
         winner == Winner(p.v.user_score, p.v.opp_score)
         mine ==
           IF ~p.ok
             THEN [IdleReq EXCEPT !.pc = "done", !.body = body,
                                  !.resp = ErrorResponse,
                                  !.overlap = busy # {}]
             ELSE [IdleReq EXCEPT
                     !.pc = "load", !.body = body,
                     !.wallet = p.v.wallet,
                     !.user_score = p.v.user_score,
                     !.opp_score = p.v.opp_score,
                     !.stake = p.v.stake,
                     !.category = p.v.category,
                     !.winner = winner,
                     !.commission = Commission(winner, p.v.stake),
                     !.net_reward = NetReward(winner, p.v.stake),
                     !.player_id = PlayerId(p.v.wallet),
                     !.overlap = busy # {}]
     IN req' = [q \in Reqs |->
                  IF q = r THEN mine
                  ELSE IF q \in busy THEN [req[q] EXCEPT !.overlap = TRUE]
                  ELSE req[q]]
  /\ UNCHANGED <<file, board>>

\* What load_scores finds: a file it cannot read, or the file's kind.
Found(readable) == IF readable THEN file.kind ELSE "unreadable"

\* Lines 253-257 on request record q, the file read or not: the scores are
\* loaded and the player's entry incremented. An identifier that cannot be
\* hashed raises at line 255, and the handler goes to line 259.
Loaded(q, readable) ==
  LET scores == load_scores(file, readable)
  IN IF Hashable(q.player_id)
       THEN [q EXCEPT !.pc = "open", !.read = Found(readable),
                      !.base = scores,
                      !.scores = UpdateScores(scores, q.player_id,
                                              q.user_score)]
       ELSE [q EXCEPT !.pc = "respond", !.read = Found(readable),
                      !.base = scores, !.io = "raised"]

\* Lines 253-257, the file read.
Load(r) ==
  /\ req[r].pc = "load"
  /\ req' = [req EXCEPT ![r] = Loaded(req[r], TRUE)]
  /\ UNCHANGED <<file, board>>

\* Lines 253-257, the file unreadable: load_scores returns {}.
LoadUnreadable(r) ==
  /\ req[r].pc = "load"
  /\ req' = [req EXCEPT ![r] = Loaded(req[r], FALSE)]
  /\ UNCHANGED <<file, board>>

\* Line 64: the file is opened for writing, which empties it.
SaveOpen(r) ==
  /\ req[r].pc = "open"
  /\ file' = OpenForWrite(file)
  /\ req' = [req EXCEPT ![r].pc = "dump",
                        ![r].prior = load_scores(file, TRUE)]
  /\ UNCHANGED board

\* Line 64 raises (the file cannot be opened for writing): line 259.
SaveOpenFails(r) ==
  /\ req[r].pc = "open"
  /\ req' = [req EXCEPT ![r].pc = "respond", ![r].io = "openfail"]
  /\ UNCHANGED <<file, board>>

\* Line 65 and the close: the text is written.
SaveDump(r) ==
  /\ req[r].pc = "dump"
  /\ file' = WriteText(file, json_dump(req[r].scores))
  /\ req' = [req EXCEPT ![r].pc = "respond", ![r].io = "saved"]
  /\ UNCHANGED board

\* Line 65 raises (the write fails): nothing is written, line 259.
SaveDumpFails(r) ==
  /\ req[r].pc = "dump"
  /\ req' = [req EXCEPT ![r].pc = "respond", ![r].io = "dumpfail"]
  /\ UNCHANGED <<file, board>>

\* Lines 259-267 with the failure of the store update reported to the
\* caller.
RespondFailure(r) ==
  /\ req[r].pc = "respond"
  /\ req' = [req EXCEPT ![r].pc = "done",
                        ![r].resp = IF req[r].io = "saved"
                                      THEN OkResponse(req[r].winner,
                                                      req[r].commission,
                                                      req[r].net_reward)
                                      ELSE ErrorResponse,
                        ![r].scores = <<>>,
                        ![r].base = <<>>,
                        ![r].prior = <<>>]
  /\ UNCHANGED <<file, board>>

\* Lines 262-267: the response is returned, and the handler's copy of the
\* scores is gone with it.
Respond(r) ==
  /\ req[r].pc = "respond"
  /\ req' = [req EXCEPT ![r].pc = "done",
                        ![r].resp = OkResponse(req[r].winner,
                                               req[r].commission,
                                               req[r].net_reward),
                        ![r].scores = <<>>,
                        ![r].base = <<>>,
                        ![r].prior = <<>>]
  /\ UNCHANGED <<file, board>>

\* Lines 277-285 with a load_scores that lets its exception out: a file
\* that is missing, unreadable or does not parse is answered 500.
LeaderboardOfStrict(readable) ==
  IF Found(readable) = "json"
    THEN [code |-> 200, leaderboard |-> Leaderboard(json_load(file.text)),
          read |-> "json", scores |-> json_load(file.text)]
    ELSE [code |-> 500, leaderboard |-> <<>>, read |-> Found(readable),
          scores |-> <<>>]

\* Lines 277-285, with the file read or not.
LeaderboardOf(readable) ==
  LET scores == load_scores(file, readable)
  IN [code |-> 200, leaderboard |-> Leaderboard(scores),
      read |-> Found(readable), scores |-> scores]

GetLeaderboard ==
  /\ board' = LeaderboardOf(TRUE)
  /\ UNCHANGED <<file, req>>

GetLeaderboardUnreadable ==
  /\ board' = LeaderboardOf(FALSE)
  /\ UNCHANGED <<file, req>>

---------------------------------------------------------------------------
(* Specifications. *)

\* The bodies sent in the concurrent runs.
ConcBodies ==
  {Result(W_a, 1), Result(W_a, 2), Result(W_ab, 1), Result(W_int, 1),
   Result(W_int, 2)}

\* Requests handled concurrently, the store written without failure and
\* read or unreadable.
Next ==
  \/ \E r \in 1..MaxConc : \E b \in ConcBodies : Receive(r, b)
  \/ \E r \in Reqs : Load(r)
  \/ \E r \in Reqs : LoadUnreadable(r)
  \/ \E r \in Reqs : SaveOpen(r)
  \/ \E r \in Reqs : SaveDump(r)
  \/ \E r \in Reqs : Respond(r)

Spec == Init /\ [][Next]_vars

\* The bodies sent in the runs with failures.
FaultBodies ==
  {Result(W_a, 1), Result(W_ab, 2), Result(W_list, 1), JList(<<JInt(1)>>)}

\* Requests handled one at a time and the leaderboard read between them,
\* the store's reads and writes failing or not.
NextFaults ==
  \/ \E r \in 1..MaxConc : \E b \in FaultBodies : Quiet /\ Receive(r, b)
  \/ \E r \in Reqs : Load(r)
  \/ \E r \in Reqs : LoadUnreadable(r)
  \/ \E r \in Reqs : SaveOpen(r)
  \/ \E r \in Reqs : SaveOpenFails(r)
  \/ \E r \in Reqs : SaveDump(r)
  \/ \E r \in Reqs : SaveDumpFails(r)
  \/ \E r \in Reqs : Respond(r)
  \/ Quiet /\ GetLeaderboard
  \/ Quiet /\ GetLeaderboardUnreadable

SpecFaults == Init /\ [][NextFaults]_vars

\* One request with any body, the store working.
NextOne ==
  \/ req[1].pc = "idle" /\ \E b \in AllBodies : Receive(1, b)
  \/ Load(1)
  \/ SaveOpen(1)
  \/ SaveDump(1)
  \/ Respond(1)

SpecOne == Init /\ [][NextOne]_vars

\* The bodies sent in the sequential runs.
SeqBodies ==
  {Result(w, u) : w \in {W_a, W_emptyaddr, W_int}, u \in {3, 5}}

\* Requests handled one at a time, the store working.
NextSeq ==
  \/ \E r \in Reqs : \E b \in SeqBodies : Quiet /\ Receive(r, b)
  \/ \E r \in Reqs : Load(r)
  \/ \E r \in Reqs : SaveOpen(r)
  \/ \E r \in Reqs : SaveDump(r)
  \/ \E r \in Reqs : Respond(r)

SpecSeq == Init /\ [][NextSeq]_vars

\* The bodies sent in the runs that read the leaderboard.
BoardBodies ==
  {Result(W_a, 1), Result(W_ab, 2), Result(W_b, 1), Result(W_b, 2)}

\* Requests handled one at a time and the leaderboard read between them,
\* the store working.
NextBoard ==
  \/ \E r \in Reqs : \E b \in BoardBodies : Quiet /\ Receive(r, b)
  \/ \E r \in Reqs : Load(r)
  \/ \E r \in Reqs : SaveOpen(r)
  \/ \E r \in Reqs : SaveDump(r)
  \/ \E r \in Reqs : Respond(r)
  \/ Quiet /\ GetLeaderboard

SpecBoard == Init /\ [][NextBoard]_vars

---------------------------------------------------------------------------
(* The settlement outcome (checked under SpecOne). *)

\* The requests that were answered 200.
Answered(r) == req[r].pc = "done" /\ req[r].resp.code = 200

\* C4: the answer names the winner "user" when userScore > opponentScore,
\* "opponent" when userScore < opponentScore and "tie" when they are equal,
\* and on a tie the commission and the net reward are both 0, for every
\* stake.
C4_WinnerAndTie ==
  \A r \in Reqs :
    Answered(r) =>
      LET q == req[r]
      IN /\ (q.user_score > q.opp_score => q.resp.winner = "user")
         /\ (q.user_score < q.opp_score => q.resp.winner = "opponent")
         /\ (q.user_score = q.opp_score => q.resp.winner = "tie")
         /\ (q.resp.winner = "tie" =>
               q.resp.commission = 0 /\ q.resp.net_reward = 0)

\* A tie answered on a stake that is not 0.
C4_Witness ==
  \E r \in Reqs :
    /\ Answered(r)
    /\ req[r].user_score = req[r].opp_score
    /\ req[r].stake > 0
    /\ req[r].resp.winner = "tie"

\* C5: when the outcome is not a tie and the stake is >= 0, the commission
\* is the stake times 15/100 and commission plus net reward is the stake; a
\* body without a stake is settled on a stake of 1.0.
C5_CommissionSplit ==
  \A r \in Reqs :
    Answered(r) =>
      LET q == req[r]
      IN /\ (q.resp.winner # "tie" /\ q.stake >= 0 =>
               /\ q.resp.commission * 100 = q.stake * 15
               /\ q.resp.commission + q.resp.net_reward = q.stake)
         /\ (~HasKey(q.body.items, k_stake) => q.stake = 10000)

\* A win answered on a stake of 0.5: commission 0.075, net reward 0.425.
C5_Witness ==
  \E r \in Reqs :
    /\ Answered(r)
    /\ req[r].resp.winner = "user"
    /\ req[r].stake = 5000
    /\ req[r].resp.commission = 750
    /\ req[r].resp.net_reward = 4250

\* C8: every request is answered 200 with status "ok", whatever its body.
C8_NeverRejects ==
  \A r \in Reqs :
    req[r].pc = "done" => req[r].resp.code = 200 /\ req[r].resp.status = "ok"

---------------------------------------------------------------------------
(* The accumulated scores and the player identifier (checked under
   SpecSeq: requests handled one at a time on a store that works). *)

\* The Score Store as load_scores reads it.
Store == load_scores(file, TRUE)

\* The string under which an identifier's score is looked for in the store.
KeyText(id) == IF id.t = "str" THEN id.s ELSE PyStr(id)

RECURSIVE SubmittedSum(_, _)
\* The sum of the userScore of the answered requests 1..n whose derived
\* identifier is id.
SubmittedSum(n, id) ==
  IF n = 0 THEN 0
  ELSE SubmittedSum(n - 1, id)
       + (IF Answered(n) /\ req[n].player_id = id THEN req[n].user_score
          ELSE 0)

\* C1: between requests, the stored score of every identifier is the sum of
\* the userScore submitted for it, and an identifier nobody submitted for is
\* not in the store.
C1_StoredIsSum ==
  Quiet =>
    /\ \A r \in Reqs :
         Answered(r) =>
           /\ HasKey(Store, JStr(KeyText(req[r].player_id)))
           /\ DictGet(Store, JStr(KeyText(req[r].player_id)), 0)
                = SubmittedSum(MaxReqs, req[r].player_id)
    /\ \A i \in 1..Len(Store) :
         \E r \in Reqs :
           Answered(r) /\ KeyText(req[r].player_id) = Store[i][1].s

\* The identifier the rule of C7 chooses: the nested account's address, else
\* the top-level address, else the top-level publicKey (a field counting as
\* present when it holds a value that is not empty), else the rendering of
\* the whole wallet.
RuleIdentifier(wallet) ==
  LET acct == DictGet(wallet.items, k_account, JNull)
      nested == DictGet(acct.items, k_address, JNull)
      addr == DictGet(wallet.items, k_address, JNull)
      pkey == DictGet(wallet.items, k_publicKey, JNull)
  IN IF wallet.t = "dict" /\ acct.t = "dict" /\ Truthy(nested) THEN nested
     ELSE IF wallet.t = "dict" /\ Truthy(addr) THEN addr
     ELSE IF wallet.t = "dict" /\ Truthy(pkey) THEN pkey
     ELSE JStr(PyStr(wallet))

\* C7: the player identifier of every request is a string, the one the rule
\* chooses, and once the request is handled the store holds its score under
\* that string.
C7_StringIdentifier ==
  \A r \in Reqs :
    /\ req[r].pc \in {"load", "open", "dump", "respond"} \/ Answered(r) =>
         /\ req[r].player_id = RuleIdentifier(req[r].wallet)
         /\ req[r].player_id.t = "str"
    /\ Quiet /\ Answered(r) => HasKey(Store, req[r].player_id)

---------------------------------------------------------------------------
(* The leaderboard (checked under SpecBoard). *)

\* C6: the leaderboard has exactly one entry per stored player, with the
\* player's score, ordered by score descending and, among equal scores, by
\* identifier ascending; the entry at position i has rank i.
C6_LeaderboardOrder ==
  board.code = 200 =>
    LET l == board.leaderboard
        s == board.scores
    IN /\ Len(l) = Len(s)
       /\ \A i \in 1..Len(s) :
            \E j \in 1..Len(l) :
              l[j].player = s[i][1].s /\ l[j].score = s[i][2]
       /\ \A i \in 1..Len(l) : \A j \in 1..Len(l) :
            i < j =>
              \/ l[i].score > l[j].score
              \/ l[i].score = l[j].score /\ StrLess(l[i].player, l[j].player)
       /\ \A i \in 1..Len(l) : l[i].rank = i

\* A leaderboard of three players, the first two with equal scores and ranks
\* 1 and 2, the third with a lower score.
C6_Witness ==
  /\ board.code = 200
  /\ Len(board.leaderboard) = 3
  /\ board.leaderboard[1].score = board.leaderboard[2].score
  /\ board.leaderboard[2].score > board.leaderboard[3].score
  /\ board.leaderboard[1].rank = 1
  /\ board.leaderboard[2].rank = 2
  /\ StrLess(board.leaderboard[3].player, board.leaderboard[1].player)

---------------------------------------------------------------------------
(* The store under concurrent requests (checked under Spec). *)

\* Whether two dicts hold the same keys with the same values.
SameMap(a, b) ==
  /\ \A i \in 1..Len(a) : HasKey(b, a[i][1]) /\ DictGet(b, a[i][1], 0) = a[i][2]
  /\ \A i \in 1..Len(b) : HasKey(a, b[i][1])

\* Request r completes its save in this step.
Saves(r) == req[r].pc = "dump" /\ req'[r].io = "saved"

\* C2: a save that completes leaves in the store what its request loaded
\* plus its own increment and nothing else (or a file that does not parse):
\* what another request saved between this request's load and its save is
\* lost.
C2_SaveOverwrites ==
  [][\A r \in Reqs :
       Saves(r) =>
         \/ file'.kind = "garbage"
         \/ SameMap(load_scores(file', TRUE),
                    json_load(json_dump(
                      UpdateScores(req[r].base, req[r].player_id,
                                   req[r].user_score))))]_vars

\* Two requests for the same player have both saved and been answered, and
\* the stored score is less than the sum of their two userScore.
C2_Witness ==
  \E r1 \in Reqs : \E r2 \in Reqs :
    /\ r1 # r2
    /\ Answered(r1) /\ req[r1].io = "saved"
    /\ Answered(r2) /\ req[r2].io = "saved"
    /\ req[r1].player_id.t = "str"
    /\ req[r1].player_id = req[r2].player_id
    /\ HasKey(Store, req[r1].player_id)
    /\ DictGet(Store, req[r1].player_id, 0)
         < req[r1].user_score + req[r2].user_score

\* Every identifier of `old` is in `new` with a score that is not lower,
\* but for the identifiers in `except`.
Monotone(old, new, except) ==
  \A i \in 1..Len(old) :
    old[i][1] \notin except =>
      HasKey(new, old[i][1]) /\ DictGet(new, old[i][1], 0) >= old[i][2]

RenderedKey(id) == IF id.t = "str" THEN {} ELSE {JStr(JsonKey(id))}

---------------------------------------------------------------------------
(* Failures of the store (checked under SpecFaults). *)

\* C9: the response does not depend on the store: two requests with the
\* same body get the same response whatever the store held and whatever
\* became of the update, and a request whose update was attempted is
\* answered 200 "ok" whether the update was saved or failed.
C9_ResponseIgnoresStore ==
  /\ \A r1 \in Reqs : \A r2 \in Reqs :
       req[r1].pc = "done" /\ req[r2].pc = "done"
         /\ req[r1].body = req[r2].body
       => req[r1].resp = req[r2].resp
  /\ \A r \in Reqs :
       req[r].pc = "done" /\ req[r].io # "none" =>
         req[r].resp = OkResponse(Winner(req[r].user_score, req[r].opp_score),
                                  req[r].commission, req[r].net_reward)

\* Two requests with the same body, the first saved on a store that was
\* read, the second on a store that could not be read and whose save
\* failed: both answered 200 "ok".
C9_Witness ==
  \E r1 \in Reqs : \E r2 \in Reqs :
    /\ req[r1].pc = "done" /\ req[r1].io = "saved"
    /\ req[r2].pc = "done" /\ req[r2].io \in {"openfail", "dumpfail"}
    /\ req[r2].read = "unreadable"
    /\ req[r1].body = req[r2].body
    /\ req[r2].resp.status = "ok"

\* C10: when the file is missing, unreadable or does not parse, load_scores
\* returns the empty mapping: the leaderboard is answered 200 with an empty
\* list, and a submitted result is handled as on an empty store (the scores
\* to save hold the player's userScore alone, the answer is 200).
C10_LoadFailsSoft ==
  /\ board.code # 0 /\ board.read # "json" =>
       board.code = 200 /\ board.scores = <<>> /\ board.leaderboard = <<>>
  /\ \A r \in Reqs :
       req[r].read \notin {"none", "json"} =>
         /\ req[r].pc \in {"open", "dump", "respond"} => req[r].base = <<>>
         /\ req[r].pc \in {"open", "dump"} =>
              req[r].scores = << <<req[r].player_id, req[r].user_score>> >>
         /\ req[r].pc = "done" => req[r].resp.code = 200

\* The leaderboard was answered on a file left empty by a failed write, and
\* a result is being handled on that same file.
C10_Witness ==
  /\ board.code = 200 /\ board.read = "empty" /\ board.leaderboard = <<>>
  /\ \E r \in Reqs :
       req[r].pc = "open" /\ req[r].read = "empty" /\ Len(req[r].scores) = 1

====
